---- MODULE Spec2Model ----
(***************************************************************************)
(* A model of server.js: an express gateway in front of one whatsapp-web.js *)
(* client.  Strings the code inspects character by character (the          *)
(* recipient number) are sequences of one-character strings; strings the   *)
(* code only copies are TLA+ strings.  A JSON object is a record whose     *)
(* domain is the set of keys the object has.                               *)
(***************************************************************************)
EXTENDS Integers, Sequences, FiniteSets, TLC

VARIABLES
    client,     \* the process-wide client handle: its lifecycle and, when set, its info
    process,    \* [state, exitCode, destroy]: the node process and the destroy() promise
    console,    \* the lines written by console.log / console.error
    received,   \* number of HTTP requests received so far
    inflight,   \* handlers suspended at `await client.sendMessage(...)`
    lastDone,   \* the exchange whose response was written last
    nIn,        \* normalisation harness: the recipient given
    nOut,       \* normalisation harness: the last result
    nPc         \* normalisation harness: "off" | "in" | "once" | "twice"

vars == <<client, process, console, received, inflight, lastDone, nIn, nOut, nPc>>

serverVars == <<client, process, console, received, inflight, lastDone>>

normVars == <<nIn, nOut, nPc>>

\* Bounds of the model.
MaxReq == 2

MaxAtoms == 3

-----------------------------------------------------------------------------
(* Strings *)

Digits == {"0", "1", "2", "3", "4", "5", "6", "7", "8", "9"}

IsDigit(c) == c \in Digits

\* '@c.us'
CUsSuffix == <<"@", "c", ".", "u", "s">>

\* String.prototype.includes
Includes(s, sub) ==
    \E i \in 1..(Len(s) - Len(sub) + 1) : SubSeq(s, i, i + Len(sub) - 1) = sub

\* One alternative of /^0|\+|\D/ matches the character at position i:
\* ^0 only at the start of the string, \+ and \D anywhere.
PatternMatchesAt(s, i) ==
    \/ i = 1 /\ s[i] = "0"
    \/ s[i] = "+"
    \/ ~IsDigit(s[i])

RECURSIVE ReplaceFrom(_, _)
\* number.replace(/^0|\+|\D/g, ''), scanning from position i
ReplaceFrom(s, i) ==
    IF i > Len(s) THEN <<>>
    ELSE (IF PatternMatchesAt(s, i) THEN <<>> ELSE <<s[i]>>) \o ReplaceFrom(s, i + 1)

\* The mutant of FormattedNumber: no pass-through of addresses holding '@c.us'.
FormattedNumberAlwaysRewrites(number) == ReplaceFrom(number, 1) \o CUsSuffix

\* const formattedNumber = number.includes('@c.us') ? number : `${...}@c.us`
FormattedNumber(number) ==
    IF Includes(number, CUsSuffix)
    THEN number
    ELSE ReplaceFrom(number, 1) \o CUsSuffix

-----------------------------------------------------------------------------
(* JSON values *)

\* {} : the object with no keys
EmptyObject == [k \in {} |-> ""]

\* JSON null
JsonNull == [null |-> TRUE]

Has(obj, key) == key \in DOMAIN obj

\* !obj[key] for a field holding a string: undefined or the empty string
Falsy(obj, key) == ~Has(obj, key) \/ obj[key] = ""

\* const { key } = obj for a field holding a string
Field(obj, key) == IF Has(obj, key) THEN obj[key] ELSE "undefined"

\* req.body when body-parser could not read the body
Unparsable == [unparsable |-> TRUE]

\* !obj.number : the number is kept as a sequence of characters
FalsyNumber(obj) == ~Has(obj, "number") \/ obj.number = <<>>

-----------------------------------------------------------------------------
(* The client handle *)

\* What client.info holds once the library has a session.
Session == [wid |-> [user |-> "6281"], platform |-> "android", pushname |-> "Ari"]

\* client.info is set
HasInfo(c) == Has(c, "info")

\* The handle at a lifecycle stage, keeping or dropping its info.  initialize
\* is the promise client.initialize() returned: it settles once.
Handle(stage, promise, keepInfo, c) ==
    IF keepInfo /\ HasInfo(c)
    THEN [lifecycle |-> stage, initialize |-> promise, info |-> c.info]
    ELSE [lifecycle |-> stage, initialize |-> promise]

\* Error messages the library rejects sendMessage with.
AdapterErrors == {"Evaluation failed"}

\* sendMessage(...).id._serialized of the message sent for request id
MsgId(id) == "msg" \o ToString(id)

\* client.sendMessage(to, content, options): the promise starts pending
Call(to, content, options) ==
    [to |-> to, content |-> content, options |-> options,
     settled |-> "pending", value |-> ""]

-----------------------------------------------------------------------------
(* Requests *)

N081 == <<"0", "8", "1">>

N81CUs == <<"8", "1">> \o CUsSuffix

N1CUsDash == <<"1">> \o CUsSuffix \o <<"-">>

\* Recipients of the requests the model sends.
Numbers == {N081, N81CUs, N1CUsDash}

\* Bodies of POST /send-message
MessageBodies ==
    {[number |-> n, message |-> "hi"] : n \in Numbers}
    \cup {[number |-> N081], [message |-> "hi"], EmptyObject,
          [number |-> <<>>, message |-> "hi"], [number |-> N081, message |-> ""]}

\* Bodies of POST /send-image
ImageBodies ==
    {[number |-> N081, imageBase64 |-> "AAAA"],
     [number |-> N1CUsDash, imageBase64 |-> "AAAA", mimeType |-> "image/png",
      caption |-> "cap"],
     [number |-> N081, caption |-> "cap"], [imageBase64 |-> "AAAA"],
     [number |-> N081, imageBase64 |-> ""]}

SendRoutes == {"/send-message", "/send-image"}

Response(status, body) == [status |-> status, body |-> body]

Exchange(id, route, req, calls, res) ==
    [id |-> id, route |-> route, req |-> req, calls |-> calls, res |-> res]

\* No response written yet.
NoExchange == Exchange(0, "", EmptyObject, <<>>, Response(0, EmptyObject))

Suspended(id, route, req, call) ==
    [id |-> id, route |-> route, req |-> req, calls |-> <<call>>]

\* The call a suspended handler awaits.
Awaited(r) == r.calls[Len(r.calls)]

Running == process.state = "running"

-----------------------------------------------------------------------------
(* Initial state *)

Init ==
    /\ client = [lifecycle |-> "Initializing", initialize |-> "pending"]
    /\ process = [state |-> "running", destroy |-> "not called"]
    /\ console = {}
    /\ received = 0
    /\ inflight = {}
    /\ lastDone = NoExchange
    /\ nIn = <<>>
    /\ nOut = <<>>
    /\ nPc = "off"

-----------------------------------------------------------------------------
(* Lifecycle events of the client and their handlers *)

\* client.on('qr', ...)
OnQr ==
    /\ Running
    /\ client.lifecycle \in {"Initializing", "Disconnected"}
    /\ client' = Handle("QRPending", client.initialize, TRUE, client)
    /\ console' = console \cup {"QR RECEIVED"}
    /\ UNCHANGED <<process, received, inflight, lastDone, normVars>>

\* client.on('authenticated', ...)
OnAuthenticated ==
    /\ Running
    /\ client.lifecycle \in {"Initializing", "QRPending"}
    /\ client' = Handle("Authenticated", client.initialize, TRUE, client)
    /\ console' = console \cup {"AUTHENTICATED"}
    /\ UNCHANGED <<process, received, inflight, lastDone, normVars>>

\* client.on('ready', ...): the library has set client.info, and initialize()
\* has done its work
OnReady ==
    /\ Running
    /\ client.lifecycle = "Authenticated"
    /\ client' = [lifecycle |-> "Ready", initialize |-> "resolved", info |-> Session]
    /\ console' = console \cup {"Client is ready!"}
    /\ UNCHANGED <<process, received, inflight, lastDone, normVars>>

\* client.on('auth_failure', ...)
OnAuthFailure ==
    /\ Running
    /\ client.lifecycle \in {"Initializing", "QRPending"}
    /\ client' = Handle("AuthFailure", client.initialize, TRUE, client)
    /\ console' = console \cup {"AUTHENTICATION FAILURE"}
    /\ UNCHANGED <<process, received, inflight, lastDone, normVars>>

\* client.on('disconnected', ...): whether the library clears client.info is
\* its own business, so both outcomes are possible
OnDisconnected ==
    /\ Running
    /\ client.lifecycle = "Ready"
    /\ \E keepInfo \in BOOLEAN : client' = Handle("Disconnected", client.initialize, keepInfo, client)
    /\ console' = console \cup {"Client was logged out"}
    /\ UNCHANGED <<process, received, inflight, lastDone, normVars>>

\* The mutant of InitializeCatch: no .catch, the rejection is unhandled and
\* ends the process.
InitializeUncaught ==
    /\ Running
    /\ client.initialize = "pending"
    /\ client' = Handle("InitFailed", "rejected", TRUE, client)
    /\ process' = [state |-> "crashed", exitCode |-> 1, destroy |-> process.destroy]
    /\ UNCHANGED <<console, received, inflight, lastDone, normVars>>

\* client.initialize().catch(err => console.error(...)): initialize() rejects,
\* which it can only while it is pending, before the client is ready
InitializeCatch ==
    /\ Running
    /\ client.initialize = "pending"
    /\ client' = Handle("InitFailed", "rejected", TRUE, client)
    /\ console' = console \cup {"Failed to initialize client"}
    /\ UNCHANGED <<process, received, inflight, lastDone, normVars>>

\* The signal handlers: client.destroy() returns a promise nobody awaits, and
\* process.exit(0) ends the process in the same turn of the event loop.
Shutdown(line) ==
    /\ Running
    /\ console' = console \cup {line}
    /\ process' = [state |-> "exited", exitCode |-> 0, destroy |-> "pending"]
    /\ UNCHANGED <<client, received, inflight, lastDone, normVars>>

\* process.on('SIGTERM', ...)
OnSigterm == Shutdown("SIGTERM signal received: closing HTTP server")

\* process.on('SIGINT', ...)
OnSigint == Shutdown("SIGINT signal received: closing HTTP server")

-----------------------------------------------------------------------------
(* HTTP handlers *)

\* app.get('/')
GetRoot ==
    /\ Running
    /\ received < MaxReq
    /\ received' = received + 1
    /\ lastDone' = Exchange(received + 1, "/", EmptyObject, <<>>,
                            Response(200, [status |-> "WhatsApp API is running",
                                           version |-> "1.0.0",
                                           documentation |-> "/status - Check WhatsApp connection status"]))
    /\ UNCHANGED <<client, process, console, inflight, normVars>>

\* The mutant of StatusBody: connected is taken from the lifecycle stage, not
\* from client.info.
StatusBodyByLifecycle(c) ==
    IF c.lifecycle = "Ready" /\ HasInfo(c)
    THEN [connected |-> TRUE, status |-> "Connected",
          info |-> [wid |-> c.info.wid.user, platform |-> c.info.platform,
                    pushname |-> c.info.pushname]]
    ELSE [connected |-> FALSE, status |-> "Waiting for connection", info |-> JsonNull]

\* The object app.get('/status') answers with
StatusBody(c) ==
    IF HasInfo(c)
    THEN [connected |-> TRUE, status |-> "Connected",
          info |-> [wid |-> c.info.wid.user, platform |-> c.info.platform,
                    pushname |-> c.info.pushname]]
    ELSE [connected |-> FALSE, status |-> "Waiting for connection", info |-> JsonNull]

\* app.get('/status'): synchronous, reads client.info and answers
GetStatus ==
    /\ Running
    /\ received < MaxReq
    /\ received' = received + 1
    /\ lastDone' = Exchange(received + 1, "/status", EmptyObject, <<>>,
                            Response(200, StatusBody(client)))
    /\ UNCHANGED <<client, process, console, inflight, normVars>>

\* The mutant of MissingMessageFields: the message is not looked at.
MissingNumberOnly(body) == FalsyNumber(body)

\* if (!number || !message)
MissingMessageFields(body) == FalsyNumber(body) \/ Falsy(body, "message")

\* if (!imageBase64 || !number)
MissingImageFields(body) == Falsy(body, "imageBase64") \/ FalsyNumber(body)

\* app.post('/send-message') up to its await: validate, normalise, call the client
PostSendMessage(body) ==
    /\ Running
    /\ received < MaxReq
    /\ received' = received + 1
    /\ IF MissingMessageFields(body)
       THEN /\ lastDone' = Exchange(received + 1, "/send-message", body, <<>>,
                                    Response(400, [success |-> FALSE,
                                                   message |-> "Number and message are required"]))
            /\ UNCHANGED inflight
       ELSE /\ inflight' = inflight \cup
                {Suspended(received + 1, "/send-message", body,
                           Call(FormattedNumber(body.number),
                                [text |-> Field(body, "message")], EmptyObject))}
            /\ UNCHANGED lastDone
    /\ UNCHANGED <<client, process, console, normVars>>

\* mimeType = 'image/jpeg' when the body has none
MimeTypeOf(body) == IF Has(body, "mimeType") THEN body.mimeType ELSE "image/jpeg"

\* mime.extension(mimeType)
MimeExtension(mimeType) ==
    CASE mimeType = "image/jpeg" -> "jpeg"
      [] mimeType = "image/png" -> "png"
      [] OTHER -> "false"

\* new MessageMedia(mimeType, imageBase64, `image.${mime.extension(mimeType)}`)
MessageMedia(body) ==
    [mimetype |-> MimeTypeOf(body), data |-> Field(body, "imageBase64"),
     filename |-> "image." \o MimeExtension(MimeTypeOf(body))]

\* { caption: caption || '', sendMediaAsDocument: false }
MediaOptions(body) ==
    [caption |-> IF Falsy(body, "caption") THEN "" ELSE body.caption,
     sendMediaAsDocument |-> FALSE]

\* app.post('/send-image') up to its await
PostSendImage(body) ==
    /\ Running
    /\ received < MaxReq
    /\ received' = received + 1
    /\ IF MissingImageFields(body)
       THEN /\ lastDone' = Exchange(received + 1, "/send-image", body, <<>>,
                                    Response(400, [success |-> FALSE,
                                                   error |-> "Number and imageBase64 are required"]))
            /\ UNCHANGED inflight
       ELSE /\ inflight' = inflight \cup
                {Suspended(received + 1, "/send-image", body,
                           Call(FormattedNumber(body.number),
                                MessageMedia(body), MediaOptions(body)))}
            /\ UNCHANGED lastDone
    /\ UNCHANGED <<client, process, console, normVars>>

\* The handler r with the call it awaits settled.
Settled(r, how, value) ==
    [r EXCEPT !.calls[Len(r.calls)] = [@ EXCEPT !.settled = how, !.value = value]]

\* The library resolves a pending sendMessage: only a ready client can send
ResolveSend(r) ==
    /\ Running
    /\ Awaited(r).settled = "pending"
    /\ client.lifecycle = "Ready"
    /\ inflight' = (inflight \ {r}) \cup {Settled(r, "resolved", MsgId(r.id))}
    /\ UNCHANGED <<client, process, console, received, lastDone, normVars>>

\* The library rejects a pending sendMessage, in any lifecycle stage
RejectSend(r) ==
    /\ Running
    /\ Awaited(r).settled = "pending"
    /\ \E e \in AdapterErrors :
          inflight' = (inflight \ {r}) \cup {Settled(r, "rejected", e)}
    /\ UNCHANGED <<client, process, console, received, lastDone, normVars>>

\* What a send handler answers once its call has settled.
SendResponse(call, sent, failed) ==
    IF call.settled = "resolved"
    THEN Response(200, [success |-> TRUE, message |-> sent, data |-> call.value])
    ELSE Response(500, [success |-> FALSE, message |-> failed, error |-> call.value])

\* A send handler resumes after its await and answers.
Resume(r, route, sent, failed, logLine) ==
    /\ Running
    /\ r.route = route
    /\ Awaited(r).settled # "pending"
    /\ inflight' = inflight \ {r}
    /\ lastDone' = Exchange(r.id, r.route, r.req, r.calls,
                            SendResponse(Awaited(r), sent, failed))
    /\ console' = IF Awaited(r).settled = "rejected"
                  THEN console \cup {logLine} ELSE console
    /\ UNCHANGED <<client, process, received, normVars>>

\* The mutant of ResumeSendMessage: a rejected send is tried once more.
ResumeSendMessageRetrying(r) ==
    IF Awaited(r).settled = "rejected" /\ Len(r.calls) = 1
    THEN /\ Running
         /\ r.route = "/send-message"
         /\ inflight' = (inflight \ {r}) \cup
               {[r EXCEPT !.calls = Append(@, Call(Awaited(r).to, Awaited(r).content,
                                                   Awaited(r).options))]}
         /\ UNCHANGED <<client, process, console, received, lastDone, normVars>>
    ELSE Resume(r, "/send-message", "Message sent successfully",
                "Failed to send message", "Error sending message:")

\* The mutant of ResumeSendMessage: the result is read from a variable the
\* handlers share, so it is the result of whichever call settled.
ResumeSendMessageShared(r) ==
    /\ Running
    /\ r.route = "/send-message"
    /\ Awaited(r).settled # "pending"
    /\ inflight' = inflight \ {r}
    /\ \E o \in inflight :
          /\ Awaited(o).settled # "pending"
          /\ lastDone' = Exchange(r.id, r.route, r.req, r.calls,
                                  SendResponse(Awaited(o), "Message sent successfully",
                                               "Failed to send message"))
    /\ console' = IF Awaited(r).settled = "rejected"
                  THEN console \cup {"Error sending message:"} ELSE console
    /\ UNCHANGED <<client, process, received, normVars>>

\* app.post('/send-message') after its await: res.json(...) or the catch block
ResumeSendMessage(r) ==
    Resume(r, "/send-message", "Message sent successfully",
           "Failed to send message", "Error sending message:")

\* app.post('/send-image') after its await
ResumeSendImage(r) ==
    Resume(r, "/send-image", "Image sent successfully",
           "Failed to send image", "Error sending image:")

\* app.use((err, req, res, next) => ...): body-parser could not read the body
\* of a POST and passed its error on
ErrorMiddleware(route) ==
    /\ Running
    /\ received < MaxReq
    /\ received' = received + 1
    /\ lastDone' = Exchange(received + 1, route, Unparsable, <<>>,
                            Response(500, [success |-> FALSE,
                                           message |-> "Internal server error",
                                           error |-> "Unexpected token in JSON"]))
    /\ console' = console \cup {"err.stack"}
    /\ UNCHANGED <<client, process, inflight, normVars>>

-----------------------------------------------------------------------------
(* The server *)

Next ==
    \/ OnQr
    \/ OnAuthenticated
    \/ OnReady
    \/ OnAuthFailure
    \/ OnDisconnected
    \/ InitializeCatch
    \/ OnSigterm
    \/ OnSigint
    \/ GetRoot
    \/ GetStatus
    \/ \E body \in MessageBodies : PostSendMessage(body)
    \/ \E body \in ImageBodies : PostSendImage(body)
    \/ \E r \in inflight : ResolveSend(r)
    \/ \E r \in inflight : RejectSend(r)
    \/ \E r \in inflight : ResumeSendMessage(r)
    \/ \E r \in inflight : ResumeSendImage(r)
    \/ \E route \in SendRoutes : ErrorMiddleware(route)

Spec == Init /\ [][Next]_vars

-----------------------------------------------------------------------------
(* The normalisation on its own: one recipient, normalised twice *)

TenDigits == <<"8", "1", "2", "3", "4", "5", "6", "7", "8", "9">>

\* What the recipients are put together from.
Atoms == {<<"0">>, <<"8">>, <<"+">>, <<"-">>, CUsSuffix}

RECURSIVE AtomStrings(_)
AtomStrings(n) ==
    IF n = 0 THEN {<<>>}
    ELSE LET shorter == AtomStrings(n - 1)
         IN  shorter \cup {a \o t : a \in Atoms, t \in shorter}

\* "081234567890", "+081234567890", "+62 812-3456-7890"
Examples ==
    {<<"0">> \o TenDigits \o <<"0">>,
     <<"+", "0">> \o TenDigits \o <<"0">>,
     <<"+", "6", "2", " ", "8", "1", "2", "-", "3", "4", "5", "6", "-", "7", "8", "9", "0">>}

NormInputs ==
    AtomStrings(MaxAtoms) \cup {p \o TenDigits : p \in AtomStrings(MaxAtoms)} \cup Examples

InitNorm ==
    /\ client = [lifecycle |-> "Initializing", initialize |-> "pending"]
    /\ process = [state |-> "running", destroy |-> "not called"]
    /\ console = {}
    /\ received = 0
    /\ inflight = {}
    /\ lastDone = NoExchange
    /\ nIn \in NormInputs
    /\ nOut = <<>>
    /\ nPc = "in"

\* formattedNumber for the recipient given
Normalize ==
    /\ nPc = "in"
    /\ nOut' = <<FormattedNumber(nIn)>>
    /\ nPc' = "once"
    /\ UNCHANGED <<nIn, serverVars>>

\* formattedNumber for the address the first pass produced
NormalizeAgain ==
    /\ nPc = "once"
    /\ nOut' = Append(nOut, FormattedNumber(nOut[1]))
    /\ nPc' = "twice"
    /\ UNCHANGED <<nIn, serverVars>>

NextNorm ==
    \/ Normalize
    \/ NormalizeAgain

SpecNorm == InitNorm /\ [][NextNorm]_vars

-----------------------------------------------------------------------------
(* Vocabulary of the properties *)

\* The handlers that have invoked client.sendMessage: the suspended ones and,
\* when it invoked it, the one that answered last.
Invokers == inflight \cup (IF lastDone.calls # <<>> THEN {lastDone} ELSE {})

\* A key the JSON body of the request does not have.
Missing(req, key) == ~Has(req, key)

\* The route handler saw the request: body-parser could read its body.
Parsed(req) == req # Unparsable

\* <digits>@c.us
IsCanonical(a) ==
    /\ Len(a) >= Len(CUsSuffix)
    /\ SubSeq(a, Len(a) - Len(CUsSuffix) + 1, Len(a)) = CUsSuffix
    /\ \A i \in 1..(Len(a) - Len(CUsSuffix)) : IsDigit(a[i])

\* The string ends with '@c.us'.
EndsWithSuffix(a) ==
    /\ Len(a) >= Len(CUsSuffix)
    /\ SubSeq(a, Len(a) - Len(CUsSuffix) + 1, Len(a)) = CUsSuffix

DigitsOnly(s) == SelectSeq(s, IsDigit)

StripOneLeadingZero(d) == IF d # <<>> /\ Head(d) = "0" THEN Tail(d) ELSE d

\* 10 to 15 digits with plus signs and punctuation among them, nothing else.
ValidNumber(s) ==
    /\ \A i \in 1..Len(s) : IsDigit(s[i]) \/ s[i] \in {"+", "-", " "}
    /\ Len(DigitsOnly(s)) \in 10..15

\* The step writes a response.
Answers == lastDone' # lastDone

-----------------------------------------------------------------------------
(* C1 *)

\* C1: a /send-message request without number or without message, and a
\* /send-image request without number or without imageBase64, is answered 400
\* and client.sendMessage is not invoked for it, whatever the client's stage.
C1_MissingFieldIs400 ==
    /\ \A r \in Invokers :
          /\ r.route = "/send-message" =>
                ~Missing(r.req, "number") /\ ~Missing(r.req, "message")
          /\ r.route = "/send-image" =>
                ~Missing(r.req, "number") /\ ~Missing(r.req, "imageBase64")
    /\ (/\ lastDone.route = "/send-message"
        /\ Parsed(lastDone.req)
        /\ Missing(lastDone.req, "number") \/ Missing(lastDone.req, "message"))
          => lastDone.res.status = 400 /\ lastDone.calls = <<>>
    /\ (/\ lastDone.route = "/send-image"
        /\ Parsed(lastDone.req)
        /\ Missing(lastDone.req, "number") \/ Missing(lastDone.req, "imageBase64"))
          => lastDone.res.status = 400 /\ lastDone.calls = <<>>

\* A request without its message was answered 400 while the client was ready.
C1_Witness ==
    /\ client.lifecycle = "Ready"
    /\ lastDone.route = "/send-message"
    /\ Parsed(lastDone.req)
    /\ Missing(lastDone.req, "message")
    /\ lastDone.res.status = 400

-----------------------------------------------------------------------------
(* C2 *)

\* C2: for a 10 to 15 digit number with plus signs, punctuation and leading
\* zero, the normalised address is its digits, one leading zero of the digits
\* removed, followed by @c.us.
C2_DigitsZeroStripped ==
    (nPc \in {"once", "twice"} /\ ValidNumber(nIn))
        => nOut[1] = StripOneLeadingZero(DigitsOnly(nIn)) \o CUsSuffix

-----------------------------------------------------------------------------
(* C3 *)

\* C3: every address handed to client.sendMessage is <digits>@c.us, and a
\* recipient is handed over unchanged only if it ends with @c.us.
C3_OnlyCanonicalReachesAdapter ==
    \A r \in Invokers : \A i \in 1..Len(r.calls) :
        /\ IsCanonical(r.calls[i].to)
        /\ r.calls[i].to = r.req.number => EndsWithSuffix(r.req.number)

-----------------------------------------------------------------------------
(* C4 *)

\* C4: normalising the result of a normalisation gives that result again, and
\* an address already of the form <digits>@c.us is returned unchanged.
C4_Idempotent ==
    /\ nPc = "twice" => nOut[2] = nOut[1]
    /\ (nPc \in {"once", "twice"} /\ IsCanonical(nIn)) => nOut[1] = nIn

\* "008", rewritten to 08@c.us by the first pass, has been normalised again.
C4_Witness ==
    /\ nPc = "twice"
    /\ nIn = <<"0", "0", "8">>
    /\ nOut[1] = <<"0", "8">> \o CUsSuffix

-----------------------------------------------------------------------------
(* C5 *)

\* C5: the body of every failure response has exactly the keys success,
\* message and error, with success false.
C5_FailureShape ==
    lastDone.res.status >= 400 =>
        /\ DOMAIN lastDone.res.body = {"success", "message", "error"}
        /\ lastDone.res.body.success = FALSE

-----------------------------------------------------------------------------
(* C6 *)

\* The one invocation a /send-message handler makes for its request.
IsTheCallFor(r) ==
    /\ Len(r.calls) = 1
    /\ r.calls[1].to = FormattedNumber(r.req.number)
    /\ r.calls[1].content = [text |-> r.req.message]
    /\ r.calls[1].options = EmptyObject

-----------------------------------------------------------------------------
(* C7 *)

\* C7: the process has exited with code 0 only after client.destroy() finished.
C7_DestroyBeforeExit ==
    process.state = "exited" =>
        process.exitCode = 0 /\ process.destroy = "finished"

-----------------------------------------------------------------------------
(* C8 *)

\* The answer of GET /status when the client has no session.
WaitingForConnection ==
    [connected |-> FALSE, status |-> "Waiting for connection", info |-> JsonNull]

\* A step in which GET /status is answered: 200, connected exactly when the
\* client has info at that moment, and the waiting answer when it has none.
StatusAnsweredFromInfo ==
    (Answers /\ lastDone'.route = "/status") =>
        /\ lastDone'.res.status = 200
        /\ lastDone'.res.body.connected = HasInfo(client)
        /\ ~HasInfo(client) => lastDone'.res.body = WaitingForConnection
        /\ HasInfo(client) => lastDone'.res.body.info.wid = client.info.wid.user

\* C8: GET /status is answered in the step that receives it, in every stage of
\* the client, never with an error and never suspended at the client;
\* connected is true exactly when client.info is set, and without a session
\* the answer is {connected:false, status:"Waiting for connection", info:null}.
C8_StatusNeverWaits ==
    /\ [][StatusAnsweredFromInfo]_vars
    /\ [](\A r \in inflight : r.route # "/status")
    /\ []((Running /\ received < MaxReq) => ENABLED GetStatus)

\* After a disconnect that cleared client.info, GET /status answered waiting.
C8_Witness ==
    /\ client.lifecycle = "Disconnected"
    /\ ~HasInfo(client)
    /\ "Client is ready!" \in console
    /\ lastDone.route = "/status"
    /\ lastDone.res.body = WaitingForConnection

-----------------------------------------------------------------------------
(* C9 *)

InitFailed == client.lifecycle = "InitFailed"

\* What holds of a state in which initialize() has failed.
AfterInitFailure ==
    InitFailed =>
        /\ "Failed to initialize client" \in console
        /\ process.state \in {"running", "exited"}
        /\ process.state = "exited" => process.exitCode = 0
        /\ ~HasInfo(client)
        /\ \A r \in inflight : Awaited(r).settled # "resolved"
        /\ (Running /\ received < MaxReq) =>
              /\ ENABLED GetStatus
              /\ \A body \in MessageBodies : ENABLED PostSendMessage(body)

\* What holds of a step taken after initialize() has failed.
StepAfterInitFailure ==
    InitFailed =>
        /\ InitFailed'
        /\ (Answers /\ lastDone'.route = "/status") =>
              lastDone'.res = Response(200, WaitingForConnection)
        /\ (Answers /\ lastDone'.route \in SendRoutes /\ lastDone'.calls # <<>>) =>
              /\ lastDone'.res.status = 500
              /\ lastDone'.res.body.success = FALSE

\* C9: when initialize() fails the failure is logged and initialisation is not
\* tried again; the process stays up and goes on accepting requests; from
\* then on GET /status answers connected:false, and a send that reached the
\* client is answered 500.
C9_InitFailureIsNotFatal ==
    /\ []AfterInitFailure
    /\ [][StepAfterInitFailure]_vars

\* After the failure a status query was answered and a send is still suspended.
C9_Witness ==
    /\ InitFailed
    /\ Running
    /\ lastDone.route = "/send-message"
    /\ lastDone.res.status = 500
    /\ lastDone.id = 2
    /\ received = 2

-----------------------------------------------------------------------------
(* C10 *)

\* The answer a send handler owes for its own call.
OwnAnswer(r) ==
    IF Awaited(r).settled = "resolved"
    THEN Response(200, [success |-> TRUE,
                        message |-> IF r.route = "/send-message"
                                    THEN "Message sent successfully"
                                    ELSE "Image sent successfully",
                        data |-> MsgId(r.id)])
    ELSE Response(500, [success |-> FALSE,
                        message |-> IF r.route = "/send-message"
                                    THEN "Failed to send message"
                                    ELSE "Failed to send image",
                        error |-> Awaited(r).value])

\* A step of the server, with handlers of other requests suspended or not:
\* a send answered in it is answered from that request's own fields and its
\* own call's result; a status answered in it is answered from client.info as
\* it is in that step; at most one suspended handler advances, every other
\* one is left as it was; and no handler step changes the client.
StepTouchesOneRequest ==
    /\ (Answers /\ lastDone'.route \in SendRoutes /\ lastDone'.calls # <<>>) =>
          \E r \in inflight :
              /\ r.id = lastDone'.id
              /\ r \notin inflight'
              /\ Awaited(r).settled # "pending"
              /\ lastDone'.req = r.req
              /\ lastDone'.calls = r.calls
              /\ lastDone'.res = OwnAnswer(r)
    /\ (Answers /\ lastDone'.route = "/status") =>
          lastDone'.res.body.connected = HasInfo(client)
    /\ Cardinality({r \in inflight : r \notin inflight'}) <= 1
    /\ \A r \in inflight' \ inflight :
          \/ r.id = received + 1 /\ inflight \subseteq inflight'
          \/ \E o \in inflight \ inflight' :
                /\ o.id = r.id
                /\ o.req = r.req
                /\ Awaited(o).settled = "pending"
                /\ Awaited(r).to = Awaited(o).to
    /\ (Answers \/ inflight' # inflight) => client' = client

\* C10: handlers of concurrent requests do not affect each other's answers.
C10_NoCrossTalk == [][StepTouchesOneRequest]_vars

\* A send was answered 500 while the send of an earlier request, resolved
\* by the client, had not resumed yet.
C10_Witness ==
    /\ lastDone.route = "/send-message"
    /\ lastDone.id = 2
    /\ lastDone.res.status = 500
    /\ \E r \in inflight :
          /\ r.id = 1
          /\ r.route = "/send-message"
          /\ Awaited(r).settled = "resolved"

====
